---- MODULE Spec2Model ----
(***************************************************************************)
(* ccstatus: the settings-file mutation engine.                            *)
(*                                                                         *)
(* The model covers internal/config/config.go (settings store, backup      *)
(* manager, statusline-entry editor) and the install / uninstall           *)
(* workflows of package cmd that sequence them.                            *)
(***************************************************************************)
EXTENDS FiniteSets, Integers, Sequences, TLC

VARIABLES
    live,         \* content of ~/.claude/settings.json (NoFile when absent)
    backups,      \* entries of ~/.claude besides settings.json, by name
    now,          \* wall clock, in seconds
    cmd,          \* the command being run: "none", "install", "uninstall"
    pc,           \* position of the run inside runInstall / runUninstall
    exists,       \* runInstall's local `exists`
    settings,     \* the in-memory Settings map of the run (or of the editor)
    backupPath,   \* runUninstall's local `backupPath`
    outcome,      \* how the run ended
    runs,         \* number of finished runs
    hostWrites,   \* number of writes by the host application
    live0,        \* history: settings file at the start of the run
    backups0,     \* history: backup files at the start of the run
    hist,         \* history: what the user answered, what the run did
    edOp,         \* editor harness: last editor function applied
    edArg,        \* editor harness: its command argument
    edPre,        \* editor harness: the document it was applied to
    variant,      \* which of the two versions of the editor the build holds
    api,          \* store harness: last package function called, its result
    render,       \* renderer harness: the inputs and the output of Run
    screen,       \* the config screen: its bubbletea model and its session
    doctor,       \* the doctor command: its checks and what it reported
    stdin         \* standard input of a run: the prompts built in, the stream

fsVars   == <<live, backups, now>>
runVars  == <<cmd, pc, exists, settings, backupPath, outcome, runs>>
histVars == <<live0, backups0, hist>>
edVars   == <<edOp, edArg, edPre>>
auxVars  == <<variant, api, render, screen, doctor, stdin>>
vars     == <<live, backups, now, cmd, pc, exists, settings, backupPath,
              outcome, runs, hostWrites, live0, backups0, hist,
              edOp, edArg, edPre, variant, api, render, screen, doctor, stdin>>

(***************************************************************************)
(* Bounds of the model.                                                    *)
(***************************************************************************)
MaxRuns       == 3
MaxTime       == 1
MaxHostWrites == 1
MaxMtime      == 2
MaxCalls      == 2
MaxKeys       == 6
MaxTokenLen   == 12

(***************************************************************************)
(* JSON values.  Numbers are carried as their decimal literal, so that     *)
(* decoding into a Go float64 and encoding again is observable.            *)
(***************************************************************************)
JStr(s) == [t |-> "str", s |-> s]
JNum(n) == [t |-> "num", n |-> n]
JObj(o) == [t |-> "obj", o |-> o]
JNull   == [t |-> "null"]
JArr    == [t |-> "arr"]
JBool(b) == [t |-> "bool", b |-> b]

EmptyMap == [x \in {} |-> JNull]

MapSet(m, k, v) == [x \in (DOMAIN m) \cup {k} |-> IF x = k THEN v ELSE m[x]]
MapDelete(m, k) == [x \in (DOMAIN m) \ {k} |-> m[x]]

StatuslineKey == "statusline"
CommandField  == "command"
Self          == "ccstatus"

\* 2^53 + 1, the smallest positive integer a float64 cannot hold
BigLit     == "9007199254740993"
BigRounded == "9007199254740992"

\* strconv.ParseFloat followed by the shortest-decimal formatting of the
\* encoder, on the literals of this model
Float64(lit) == IF lit = BigLit THEN BigRounded ELSE lit

\* json.Unmarshal into `any`: numbers become float64, the rest keeps its shape
RECURSIVE DecodeValue(_)
DecodeValue(v) ==
    CASE v.t = "num" -> JNum(Float64(v.n))
      [] v.t = "obj" -> JObj([x \in DOMAIN v.o |-> DecodeValue(v.o[x])])
      [] OTHER       -> v

(***************************************************************************)
(* File contents ("bytes").  A JSON text is its value plus its formatting; *)
(* anything else is a text that does not parse.                            *)
(***************************************************************************)
JsonText(f, v) == [k |-> "json", f |-> f, v |-> v]
BadText(why)   == [k |-> "bad", f |-> why, v |-> JNull]
NoFile         == [k |-> "nofile", f |-> "", v |-> JNull]

Garbage == BadText("garbage")     \* e.g.  not json{
Partial == BadText("partial")     \* a write that stopped after truncation

UnmarshalLenient(data) ==
    IF data.k # "json"
    THEN [err |-> TRUE, nil |-> TRUE, m |-> EmptyMap]
    ELSE CASE data.v.t = "obj"  ->
                [err |-> FALSE, nil |-> FALSE, m |-> DecodeValue(data.v).o]
           [] data.v.t \in {"null", "arr"} ->
                [err |-> FALSE, nil |-> TRUE, m |-> EmptyMap]
           [] OTHER ->
                [err |-> TRUE, nil |-> TRUE, m |-> EmptyMap]

\* json.Unmarshal(data, &settings) with settings of type Settings
Unmarshal(data) ==
    IF data.k # "json"
    THEN [err |-> TRUE, nil |-> TRUE, m |-> EmptyMap]
    ELSE CASE data.v.t = "obj"  ->
                [err |-> FALSE, nil |-> FALSE, m |-> DecodeValue(data.v).o]
           [] data.v.t = "null" ->
                [err |-> FALSE, nil |-> TRUE, m |-> EmptyMap]
           [] OTHER ->
                [err |-> TRUE, nil |-> TRUE, m |-> EmptyMap]

\* json.MarshalIndent(settings, "", "  ")
MarshalIndent(m) == JsonText("indent", JObj(m))

\* os.WriteFile: truncates, then writes; `io` is what the file system does
WriteFile(old, data, io) ==
    CASE io = "ok"      -> [err |-> FALSE, file |-> data]
      [] io = "denied"  -> [err |-> TRUE,  file |-> old]
      [] io = "partial" -> [err |-> TRUE,  file |-> Partial]

WriteOutcomes == {"ok", "denied", "partial"}
ReadOutcomes  == {"ok", "fail"}

(***************************************************************************)
(* Settings store.                                                         *)
(***************************************************************************)
ConfigExists(file) == file # NoFile

ReadSettings(file, io) ==
    IF file = NoFile THEN [err |-> FALSE, m |-> EmptyMap]
    ELSE IF io = "fail" THEN [err |-> TRUE, m |-> EmptyMap]
    ELSE LET u == Unmarshal(file) IN
         IF u.err THEN [err |-> TRUE, m |-> EmptyMap]
         ELSE [err |-> FALSE, m |-> u.m]

WriteSettings(file, m, io) == WriteFile(file, MarshalIndent(m), io)

(***************************************************************************)
(* Statusline-entry editor.                                                *)
(***************************************************************************)
GetStatuslineCommandAnyType(m) ==
    IF StatuslineKey \notin DOMAIN m THEN ""
    ELSE IF m[StatuslineKey].t # "obj" THEN ""
    ELSE IF CommandField \notin DOMAIN m[StatuslineKey].o THEN ""
    ELSE IF m[StatuslineKey].o[CommandField].t = "num"
    THEN m[StatuslineKey].o[CommandField].n
    ELSE m[StatuslineKey].o[CommandField].s

GetStatuslineCommand(m) ==
    IF StatuslineKey \notin DOMAIN m THEN ""
    ELSE IF m[StatuslineKey].t # "obj" THEN ""
    ELSE IF CommandField \notin DOMAIN m[StatuslineKey].o THEN ""
    ELSE IF m[StatuslineKey].o[CommandField].t # "str" THEN ""
    ELSE m[StatuslineKey].o[CommandField].s

SetStatuslineCommandKeepingPrevious(m, command) ==
    MapSet(m, StatuslineKey,
           JObj([command |-> JStr(command),
                 previous |-> JStr(GetStatuslineCommand(m))]))

SetStatuslineCommand(m, command) ==
    MapSet(m, StatuslineKey, JObj(MapSet(EmptyMap, CommandField, JStr(command))))

RemoveStatuslineWrongKey(m) == MapDelete(m, "otherTool")

RemoveStatusline(m) == MapDelete(m, StatuslineKey)

\* The later version of the two functions, which keeps the sibling fields of
\* the entry.  (It also spells the key statusLine; the model has one
\* well-known key.)
SetStatuslineCommandPreserving(m, command) ==
    IF StatuslineKey \notin DOMAIN m
    THEN MapSet(m, StatuslineKey,
                JObj(MapSet(EmptyMap, CommandField, JStr(command))))
    ELSE IF m[StatuslineKey].t # "obj"
    THEN MapSet(m, StatuslineKey,
                JObj(MapSet(EmptyMap, CommandField, JStr(command))))
    ELSE MapSet(m, StatuslineKey,
                JObj(MapSet(m[StatuslineKey].o, CommandField, JStr(command))))

RemoveStatuslinePreserving(m) ==
    IF StatuslineKey \notin DOMAIN m THEN m
    ELSE IF m[StatuslineKey].t # "obj" THEN MapDelete(m, StatuslineKey)
    ELSE LET statuslineMap == MapDelete(m[StatuslineKey].o, CommandField) IN
         IF Cardinality(DOMAIN statuslineMap) = 0
         THEN MapDelete(m, StatuslineKey)
         ELSE MapSet(m, StatuslineKey, JObj(statuslineMap))

Variants == {"replace", "preserve"}

SetCommandTyped(v, m, command) ==
    LET r == IF v = "preserve" THEN SetStatuslineCommandPreserving(m, command)
             ELSE SetStatuslineCommand(m, command)
    IN  MapSet(r, StatuslineKey,
               JObj(MapSet(r[StatuslineKey].o, "type", JStr("command"))))

SetCommand(v, m, command) ==
    IF v = "preserve" THEN SetStatuslineCommandPreserving(m, command)
    ELSE SetStatuslineCommand(m, command)

RemoveCommand(v, m) ==
    IF v = "preserve" THEN RemoveStatuslinePreserving(m)
    ELSE RemoveStatusline(m)

IsStatuslineConfiguredWrongName(m) == GetStatuslineCommand(m) = "cc-status"

IsStatuslineConfigured(m) == GetStatuslineCommand(m) = Self

(***************************************************************************)
(* The documents of the model.                                             *)
(***************************************************************************)
OtherKey == "otherTool"

OtherValues == {JObj([x |-> JNum("1")]), JNum(BigLit)}

EntryValues ==
    { JStr("off"),
      JObj(EmptyMap),
      JObj([command |-> JStr(Self)]),
      JObj([command |-> JStr("other")]),
      JObj([command |-> JNum("5")]),
      JObj([padding |-> JNum("2")]),
      JObj([command |-> JStr(Self), padding |-> JNum("2")]),
      JObj([command |-> JStr("other"), padding |-> JNum("2")]) }

WithKey(m, k, vs) == {m} \cup {MapSet(m, k, v) : v \in vs}

Docs == UNION { WithKey(m, StatuslineKey, EntryValues)
                  : m \in WithKey(EmptyMap, OtherKey, OtherValues) }

Commands == {Self, "other", "z"}

\* the same documents as a run holds them in memory, after decoding
GoDocs == {DecodeValue(JObj(d)).o : d \in Docs}

(***************************************************************************)
(* Editor harness: the editor functions applied to every document shape.   *)
(***************************************************************************)
NoPath == ""

NoSaved == [ok |-> FALSE, d |-> EmptyMap]

NoApi == [op |-> "none", calls |-> 0, saved |-> NoSaved]

NoRender == [op |-> "none"]

NoScreen == [phase |-> "none"]

NoDoctor == [op |-> "none"]

\* the interactive selector of the current build, on an open terminal
NoInput == [ui |-> "select", closed |-> FALSE]

IdleRun ==
    /\ cmd = "none" /\ pc = "idle" /\ exists = FALSE
    /\ backupPath = NoPath /\ outcome = "" /\ runs = 0 /\ hostWrites = 0

NoHist == [declined |-> FALSE, saidYes |-> FALSE, prompted |-> FALSE,
           backedUp |-> FALSE, wroteLive |-> FALSE, changedDir |-> FALSE,
           path |-> "", answered |-> FALSE, over |-> <<>>, late |-> FALSE]

InitEditor ==
    /\ live = NoFile /\ backups = EmptyMap /\ now = 0
    /\ IdleRun
    /\ live0 = NoFile /\ backups0 = EmptyMap /\ hist = NoHist
    /\ settings \in GoDocs
    /\ edOp = "none" /\ edArg = "" /\ edPre = EmptyMap
    /\ variant \in Variants /\ api = NoApi /\ render = NoRender
    /\ screen = NoScreen /\ doctor = NoDoctor /\ stdin = NoInput

EdSet ==
    \E c \in Commands :
        /\ settings' = SetCommand(variant, settings, c)
        /\ edOp' = "set" /\ edArg' = c /\ edPre' = settings
        /\ UNCHANGED <<fsVars, cmd, pc, exists, backupPath, outcome, runs,
                       hostWrites, histVars, auxVars>>

EdRemove ==
    /\ settings' = RemoveCommand(variant, settings)
    /\ edOp' = "remove" /\ edArg' = "" /\ edPre' = settings
    /\ UNCHANGED <<fsVars, cmd, pc, exists, backupPath, outcome, runs,
                   hostWrites, histVars, auxVars>>

EdGet ==
    /\ edOp' = "get" /\ edArg' = GetStatuslineCommand(settings)
    /\ edPre' = settings
    /\ UNCHANGED <<fsVars, runVars, hostWrites, histVars, auxVars>>

NextEditor == EdSet \/ EdRemove \/ EdGet

SpecEditor == InitEditor /\ [][NextEditor]_vars

(***************************************************************************)
(* Reference definitions of the editor, as the specification states them.  *)
(***************************************************************************)
OnlyCommand(c) == JObj(MapSet(EmptyMap, CommandField, JStr(c)))

RefSetCommand(m, c) ==
    IF StatuslineKey \notin DOMAIN m THEN MapSet(m, StatuslineKey, OnlyCommand(c))
    ELSE IF m[StatuslineKey].t = "obj"
    THEN MapSet(m, StatuslineKey,
                JObj(MapSet(m[StatuslineKey].o, CommandField, JStr(c))))
    ELSE MapSet(m, StatuslineKey, OnlyCommand(c))

RefRemoveCommand(m) ==
    IF StatuslineKey \notin DOMAIN m THEN m
    ELSE IF m[StatuslineKey].t # "obj" THEN MapDelete(m, StatuslineKey)
    ELSE LET rest == MapDelete(m[StatuslineKey].o, CommandField) IN
         IF DOMAIN rest = {} THEN MapDelete(m, StatuslineKey)
         ELSE MapSet(m, StatuslineKey, JObj(rest))

\* C1: setCommand(doc, command) equals the reference definition for every
\* document shape: an absent or non-object entry becomes an object holding
\* only the command, an object entry keeps every other field, and all other
\* top-level keys are unchanged.
C1_SetCommandIsReference ==
    edOp = "set" => settings = RefSetCommand(edPre, edArg)

\* C2: removeCommand(doc) equals the reference definition for every document
\* shape: absent entry is a no-op, a non-object entry is deleted, an object
\* entry loses only its command field and is deleted exactly when no other
\* field remains.
C2_RemoveCommandIsReference ==
    edOp = "remove" => settings = RefRemoveCommand(edPre)

\* C16: setCommand is idempotent: setting the same command a second time
\* leaves the document as the first call left it, for every document shape
\* and in both versions of the function.
C16_SetCommandIdempotent ==
    [][(edOp = "set" /\ edOp' = "set" /\ edArg' = edArg)
           => settings' = settings]_vars

\* a second set of the same command, on an entry that had sibling fields
C16_Witness ==
    /\ edOp = "set" /\ edPre = settings
    /\ edArg = "z"
    /\ StatuslineKey \in DOMAIN settings
    /\ Cardinality(DOMAIN settings[StatuslineKey].o) = 2
    /\ variant = "preserve"

\* getCommand as the specification states it
RefGetCommand(m) ==
    IF /\ StatuslineKey \in DOMAIN m
       /\ m[StatuslineKey].t = "obj"
       /\ CommandField \in DOMAIN m[StatuslineKey].o
       /\ m[StatuslineKey].o[CommandField].t = "str"
    THEN m[StatuslineKey].o[CommandField].s
    ELSE ""

\* C17: getCommand leaves the document alone and returns the command exactly
\* when the entry is an object with a string command, the empty string for
\* every other shape.
C17_GetCommandIsReference ==
    edOp = "get" => (settings = edPre /\ edArg = RefGetCommand(edPre))

\* getCommand on an object entry whose command is a number
C17_Witness ==
    /\ edOp = "get" /\ edArg = ""
    /\ StatuslineKey \in DOMAIN edPre
    /\ edPre[StatuslineKey].t = "obj"
    /\ CommandField \in DOMAIN edPre[StatuslineKey].o
    /\ edPre[StatuslineKey].o[CommandField].t = "num"

(***************************************************************************)
(* Backup manager.                                                         *)
(***************************************************************************)
BackupPrefix == "settings.backup"

\* time.Now().Format("20060102-150405") inside the backup's file name, for
\* the seconds of the model's clock
BackupNames ==
    << "settings.backup.20260101-000000.json",
       "settings.backup.20260101-000001.json",
       "settings.backup.20260101-000002.json",
       "settings.backup.20260101-000003.json" >>

BackupName(clock) == BackupNames[clock + 1]

\* the names a directory entry can have in the model, in the order in which
\* os.ReadDir returns them (sorted by file name)
DirOrder ==
    << "ccstatus.json", BackupPrefix >> \o BackupNames \o << "settings.backup.d" >>

\* name[:len(BackupPrefix)] == BackupPrefix
StartsWithPrefix(name) == name # "ccstatus.json"

\* len(name) > len(BackupPrefix)
LongerThanPrefix(name) == name \notin {"ccstatus.json", BackupPrefix}

FileEntry(data, mtime) == [data |-> data, mtime |-> mtime, isDir |-> FALSE]
DirEntry(mtime)        == [data |-> NoFile, mtime |-> mtime, isDir |-> TRUE]

ReadDir(dir) == SelectSeq(DirOrder, LAMBDA n : n \in DOMAIN dir)

BackupOutcomes == {"ok", "readfail", "denied", "partial"}

CreateBackupReencoding(file, dir, clock, io) ==
    IF file = NoFile THEN [err |-> FALSE, path |-> NoPath, dir |-> dir]
    ELSE IF io # "ok" \/ Unmarshal(file).err
    THEN [err |-> TRUE, path |-> NoPath, dir |-> dir]
    ELSE [err  |-> FALSE,
          path |-> BackupName(clock),
          dir  |-> MapSet(dir, BackupName(clock),
                          FileEntry(MarshalIndent(Unmarshal(file).m),
                                    clock + 1))]

\* A backup is named after the clock second and written with os.WriteFile,
\* which replaces a file of the same name.
CreateBackup(file, dir, clock, io) ==
    IF file = NoFile THEN [err |-> FALSE, path |-> NoPath, dir |-> dir]
    ELSE IF io = "readfail" THEN [err |-> TRUE, path |-> NoPath, dir |-> dir]
    ELSE LET name == BackupName(clock)
             old  == IF name \in DOMAIN dir THEN dir[name].data ELSE NoFile
             w    == WriteFile(old, file, IF io = "ok" THEN "ok" ELSE io)
         IN  IF io = "denied" THEN [err |-> TRUE, path |-> NoPath, dir |-> dir]
             ELSE [err  |-> w.err,
                   path |-> IF w.err THEN NoPath ELSE name,
                   dir  |-> MapSet(dir, name, FileEntry(w.file, clock + 1))]

\* the loop of GetLatestBackup over the directory entries
RECURSIVE LatestScan(_, _, _, _)
LatestScan(dir, entries, latestBackup, latestTime) ==
    IF entries = <<>> THEN latestBackup
    ELSE LET name == Head(entries) IN
         IF dir[name].isDir
         THEN LatestScan(dir, Tail(entries), latestBackup, latestTime)
         ELSE IF LongerThanPrefix(name) /\ StartsWithPrefix(name)
                    /\ dir[name].mtime > latestTime
         THEN LatestScan(dir, Tail(entries), name, dir[name].mtime)
         ELSE LatestScan(dir, Tail(entries), latestBackup, latestTime)

GetLatestBackup(dir, io) ==
    IF io = "fail" THEN [err |-> TRUE, path |-> NoPath]
    ELSE LET p == LatestScan(dir, ReadDir(dir), NoPath, 0) IN
         [err |-> p = NoPath, path |-> p]

RestoreFromBackup(path, dir, file, ioRead, ioWrite) ==
    IF ioRead = "fail" \/ path \notin DOMAIN dir \/ dir[path].isDir
    THEN [err |-> TRUE, file |-> file]
    ELSE IF Unmarshal(dir[path].data).err THEN [err |-> TRUE, file |-> file]
    ELSE WriteFile(file, dir[path].data, ioWrite)

(***************************************************************************)
(* Prompts.                                                                *)
(***************************************************************************)
Responses == {"y", "yes", "Y", "n", ""}

ToLower(s) == IF s = "Y" THEN "y" ELSE s

ConfirmDefaultYes(resp) == ToLower(resp) # "n"

Confirm(resp) == ToLower(resp) = "y" \/ ToLower(resp) = "yes"

ChoiceInputs == {"1", "2", "3", "err"}

PromptChoice(input) ==
    CASE input = "err" -> 1
      [] input = "1"   -> 1
      [] input = "2"   -> 2
      [] input = "3"   -> 3

\* the three generations of prompts: bufio / fmt.Scanln in package cmd, fmt.Scan
\* in package ui, the promptui selector in package ui
UIs == {"plain", "scan", "select"}

\* a read that fails: end of input, an interrupt, a read error
ReadError == "err"

\* what a yes/no prompt can read: once the stream is closed every read fails
Reads(in) == IF in.closed THEN {ReadError} ELSE Responses \cup {ReadError}

\* what the options menu can read
ChoiceReads(in) == IF in.closed THEN {ReadError} ELSE ChoiceInputs

ConfirmReadAsYes(ui, resp) == resp = ReadError \/ Confirm(resp)

\* the yes/no prompt of each generation on a read
ConfirmRead(ui, resp) ==
    CASE ui = "plain"  -> IF resp = ReadError THEN FALSE ELSE Confirm(resp)
      [] ui = "scan"   -> Confirm(IF resp = ReadError THEN "" ELSE resp)
      [] ui = "select" -> IF resp = ReadError THEN FALSE ELSE Confirm(resp)

\* the prompt asks again
Reprompt == 0

\* ui.PromptChoice reading with fmt.Scan: choice keeps its zero value when the
\* read fails, and the loop goes round
PromptChoiceScan(resp) ==
    LET choice == CASE resp = ReadError -> 0
                    [] resp = "1" -> 1
                    [] resp = "2" -> 2
                    [] resp = "3" -> 3
    IN  IF choice >= 1 /\ choice <= 3 THEN choice ELSE Reprompt

\* promptChoice of package cmd: the response when it is a valid choice, ""
\* for another round of the loop
promptChoice(resp, validChoices) ==
    LET response == IF resp = ReadError THEN "" ELSE resp IN
    IF response \in validChoices THEN response ELSE ""

\* the option runUninstall acts on
Choice(ui, resp) ==
    CASE ui = "plain"  ->
            LET c == promptChoice(resp, {"1", "2", "3"}) IN
            (CASE c = "1" -> 1 [] c = "2" -> 2 [] c = "3" -> 3
               [] c = ""  -> Reprompt)
      [] ui = "scan"   -> PromptChoiceScan(resp)
      [] ui = "select" -> PromptChoice(resp)

(***************************************************************************)
(* The runs of install and uninstall.                                      *)
(***************************************************************************)
InitFiles ==
    {NoFile, Garbage, JsonText("host", JNull), JsonText("host", JArr)}
        \cup {JsonText("host", JObj(d)) : d \in Docs}

Init ==
    /\ live \in InitFiles /\ backups = EmptyMap /\ now = 0
    /\ IdleRun
    /\ settings = EmptyMap
    /\ live0 = NoFile /\ backups0 = EmptyMap /\ hist = NoHist
    /\ edOp = "none" /\ edArg = "" /\ edPre = EmptyMap
    /\ variant \in Variants /\ api = NoApi /\ render = NoRender
    /\ screen = NoScreen /\ doctor = NoDoctor /\ stdin = NoInput

\* the user's answer itself, whatever the program makes of it
Affirmative(resp) == resp \in {"y", "yes", "Y"}

Asked(h, resp) ==
    [h EXCEPT !.prompted = TRUE,
              !.saidYes  = @ \/ Affirmative(resp),
              !.declined = @ \/ ~Affirmative(resp),
              !.answered = @ \/ resp # ReadError]

End(o) == pc' = "done" /\ outcome' = o

Begin(c) ==
    /\ pc = "idle" /\ runs < MaxRuns
    /\ cmd' = c
    /\ live0' = live /\ backups0' = backups /\ hist' = NoHist

InstallStart ==
    \E io \in ReadOutcomes :
        LET r == ReadSettings(live, io) IN
        /\ Begin("install")
        /\ exists' = ConfigExists(live)
        /\ settings' = r.m
        /\ IF r.err THEN End("error")
           ELSE IF IsStatuslineConfigured(r.m) THEN End("already")
           ELSE pc' = "i_confirm" /\ outcome' = ""
        /\ UNCHANGED <<fsVars, backupPath, runs, hostWrites, edVars, auxVars>>

InstallConfirm ==
    \E resp \in Reads(stdin) :
        /\ pc = "i_confirm"
        /\ hist' = Asked(hist, resp)
        /\ IF ConfirmRead(stdin.ui, resp) THEN pc' = "i_backup" /\ outcome' = ""
           ELSE End("cancelled")
        /\ UNCHANGED <<fsVars, cmd, exists, settings, backupPath, runs,
                       hostWrites, live0, backups0, edVars, auxVars>>

BackupIfExistsSkipped(ex, file, dir, clock, io) ==
    [err |-> FALSE, path |-> NoPath, dir |-> dir]

\* runInstall backs the settings file up when it found one at its start
BackupIfExists(ex, file, dir, clock, io) ==
    IF ex THEN CreateBackup(file, dir, clock, io)
    ELSE [err |-> FALSE, path |-> NoPath, dir |-> dir]

InstallBackup ==
    \E io \in BackupOutcomes :
        LET b == BackupIfExists(exists, live, backups, now, io) IN
        /\ pc = "i_backup"
        /\ backups' = b.dir
        /\ hist' = IF exists
                   THEN [hist EXCEPT
                           !.backedUp   = ~b.err,
                           !.changedDir = @ \/ b.dir # backups
                                            \/ io \in {"ok", "partial"}]
                   ELSE hist
        /\ IF b.err THEN End("error") ELSE pc' = "i_write" /\ outcome' = ""
        /\ UNCHANGED <<live, now, cmd, exists, settings, backupPath, runs,
                       hostWrites, live0, backups0, edVars, auxVars>>

InstallWrite ==
    \E io \in WriteOutcomes :
        LET m == SetCommand(variant, settings, Self)
            w == WriteSettings(live, m, io)
        IN  /\ pc = "i_write"
            /\ settings' = m
            /\ live' = w.file
            /\ hist' = [hist EXCEPT
                          !.wroteLive  = @ \/ io # "denied",
                          !.changedDir = @ \/ io # "denied",
                          !.path       = "set",
                          !.over       = IF io # "denied" /\ live # NoFile
                                         THEN Append(@, live) ELSE @]
            /\ IF w.err THEN End("error") ELSE End("complete")
            /\ UNCHANGED <<backups, now, cmd, exists, backupPath, runs,
                           hostWrites, live0, backups0, edVars, auxVars>>

CurrentStatusOnlyEmpty(currentCmd) ==
    IF currentCmd = "" THEN "none" ELSE "self"

\* runUninstall's branch on the current command: not configured, configured
\* to another command, configured to ccstatus
CurrentStatus(currentCmd) ==
    IF currentCmd = "" THEN "none"
    ELSE IF currentCmd # Self THEN "other"
    ELSE "self"

UninstallStart ==
    \E io \in ReadOutcomes, ioDir \in ReadOutcomes :
        LET r == ReadSettings(live, io)
            g == GetLatestBackup(backups, ioDir)
            configured == ConfigExists(live) /\ ~r.err
                /\ CurrentStatus(GetStatuslineCommand(r.m)) = "self"
        IN  /\ Begin("uninstall")
            /\ exists' = ConfigExists(live)
            /\ settings' = r.m
            /\ backupPath' = IF configured THEN g.path ELSE NoPath
            /\ IF ~ConfigExists(live) THEN End("nothing")
               ELSE IF r.err THEN End("error")
               ELSE IF CurrentStatus(GetStatuslineCommand(r.m)) # "self"
               THEN End("nothing")
               ELSE IF ~g.err THEN pc' = "u_menu" /\ outcome' = ""
               ELSE pc' = "u_confirm" /\ outcome' = ""
            /\ UNCHANGED <<fsVars, runs, hostWrites, edVars, auxVars>>

UninstallMenu ==
    \E input \in ChoiceReads(stdin) :
        LET choice == Choice(stdin.ui, input) IN
        /\ pc = "u_menu"
        /\ choice # Reprompt
        /\ hist' = [hist EXCEPT !.prompted = TRUE,
                                !.declined = @ \/ input = "3",
                                !.answered = @ \/ input # ReadError]
        /\ CASE choice = 1 -> pc' = "u_restore_confirm" /\ outcome' = ""
             [] choice = 2 -> pc' = "u_backup" /\ outcome' = ""
             [] choice = 3 -> End("cancelled")
        /\ UNCHANGED <<fsVars, cmd, exists, settings, backupPath, runs,
                       hostWrites, live0, backups0, edVars, auxVars>>

UninstallConfirmRemove ==
    \E resp \in Reads(stdin) :
        /\ pc = "u_confirm"
        /\ hist' = Asked(hist, resp)
        /\ IF ConfirmRead(stdin.ui, resp) THEN pc' = "u_backup" /\ outcome' = ""
           ELSE End("cancelled")
        /\ UNCHANGED <<fsVars, cmd, exists, settings, backupPath, runs,
                       hostWrites, live0, backups0, edVars, auxVars>>

UninstallConfirmRestore ==
    \E resp \in Reads(stdin) :
        /\ pc = "u_restore_confirm"
        /\ hist' = Asked(hist, resp)
        /\ IF ConfirmRead(stdin.ui, resp) THEN pc' = "u_restore" /\ outcome' = ""
           ELSE End("cancelled")
        /\ UNCHANGED <<fsVars, cmd, exists, settings, backupPath, runs,
                       hostWrites, live0, backups0, edVars, auxVars>>

UninstallRestore ==
    \E ioRead \in ReadOutcomes, ioWrite \in WriteOutcomes :
        LET w == RestoreFromBackup(backupPath, backups, live, ioRead, ioWrite)
            opened == ioRead = "ok" /\ ~Unmarshal(backups[backupPath].data).err
                        /\ ioWrite # "denied"
        IN  /\ pc = "u_restore"
            /\ live' = w.file
            /\ hist' = [hist EXCEPT
                          !.wroteLive  = @ \/ opened,
                          !.changedDir = @ \/ opened,
                          !.path       = "restore"]
            /\ IF w.err THEN End("error") ELSE End("complete")
            /\ UNCHANGED <<backups, now, cmd, exists, settings, backupPath,
                           runs, hostWrites, live0, backups0, edVars, auxVars>>

UninstallBackup ==
    \E io \in BackupOutcomes :
        LET b == CreateBackup(live, backups, now, io) IN
        /\ pc = "u_backup"
        /\ backups' = b.dir
        /\ hist' = [hist EXCEPT
                      !.backedUp   = ~b.err,
                      !.changedDir = @ \/ b.dir # backups
                                       \/ io \in {"ok", "partial"}]
        /\ IF b.err THEN End("error") ELSE pc' = "u_write" /\ outcome' = ""
        /\ UNCHANGED <<live, now, cmd, exists, settings, backupPath, runs,
                       hostWrites, live0, backups0, edVars, auxVars>>

UninstallWrite ==
    \E io \in WriteOutcomes :
        LET m == RemoveCommand(variant, settings)
            w == WriteSettings(live, m, io)
        IN  /\ pc = "u_write"
            /\ settings' = m
            /\ live' = w.file
            /\ hist' = [hist EXCEPT
                          !.wroteLive  = @ \/ io # "denied",
                          !.changedDir = @ \/ io # "denied",
                          !.path       = "remove"]
            /\ IF w.err THEN End("error") ELSE End("complete")
            /\ UNCHANGED <<backups, now, cmd, exists, backupPath, runs,
                           hostWrites, live0, backups0, edVars, auxVars>>

\* the process exits; nothing of the run survives it
Exit ==
    /\ pc = "done"
    /\ pc' = "idle" /\ cmd' = "none" /\ outcome' = ""
    /\ exists' = FALSE /\ settings' = EmptyMap /\ backupPath' = NoPath
    /\ runs' = runs + 1
    /\ live0' = NoFile /\ backups0' = EmptyMap /\ hist' = NoHist
    /\ UNCHANGED <<fsVars, hostWrites, edVars, auxVars>>

\* time passes between two runs
Tick ==
    /\ pc = "idle" /\ now < MaxTime
    /\ now' = now + 1
    /\ UNCHANGED <<live, backups, runVars, hostWrites, histVars, edVars, auxVars>>

\* between two runs the host application, which owns the settings file,
\* rewrites it with another value for one of its own keys
HostWrite ==
    \E m \in WithKey(EmptyMap, OtherKey, OtherValues) :
        /\ pc = "idle" /\ hostWrites < MaxHostWrites
        /\ live.k = "json" /\ live.v.t = "obj"
        /\ live' = JsonText("host",
                      JObj(IF OtherKey \in DOMAIN m
                           THEN MapSet(live.v.o, OtherKey, m[OtherKey])
                           ELSE MapDelete(live.v.o, OtherKey)))
        /\ live' # live
        /\ hostWrites' = hostWrites + 1
        /\ UNCHANGED <<backups, now, runVars, histVars, edVars, auxVars>>

Next ==
    \/ InstallStart \/ InstallConfirm \/ InstallBackup \/ InstallWrite
    \/ UninstallStart \/ UninstallMenu \/ UninstallConfirmRemove
    \/ UninstallConfirmRestore \/ UninstallRestore \/ UninstallBackup
    \/ UninstallWrite
    \/ Exit \/ Tick \/ HostWrite

Spec == Init /\ [][Next]_vars

(***************************************************************************)
(* Store harness: the functions of package config called one at a time on  *)
(* every settings file and settings directory of the model.                *)
(***************************************************************************)
StoreDocs ==
    WithKey(EmptyMap, OtherKey, OtherValues)
        \cup {[statusline |-> JObj([command |-> JStr(Self)])]}

StoreFiles ==
    { NoFile, Garbage,
      JsonText("host", JNull), JsonText("host", JArr),
      JsonText("host", JStr("x")), JsonText("host", JNum("7")),
      JsonText("host", JBool(TRUE)),
      JsonText("host", JObj([otherTool |-> JNum(BigLit)])) }

OldBackup == JsonText("indent", JObj([otherTool |-> JNum("1")]))

\* the directory entries whose name starts with the backup prefix
PrefixFiles == {BackupPrefix, BackupNames[1], BackupNames[2]}

\* the other entries: a file of another name and a sub-directory
BesideFiles ==
    [n \in {"ccstatus.json", "settings.backup.d"} |->
        IF n = "ccstatus.json" THEN FileEntry(Garbage, MaxMtime)
        ELSE DirEntry(MaxMtime)]

StoreDirs ==
    UNION { { [n \in S \cup DOMAIN b |->
                  IF n \in S THEN FileEntry(OldBackup, t[n]) ELSE b[n]]
              : t \in [S -> 1..MaxMtime], b \in {EmptyMap, BesideFiles} }
            : S \in SUBSET PrefixFiles }

InitStore ==
    /\ live \in StoreFiles /\ backups \in StoreDirs /\ now = 0
    /\ IdleRun
    /\ settings = EmptyMap
    /\ live0 = NoFile /\ backups0 = EmptyMap /\ hist = NoHist
    /\ edOp = "none" /\ edArg = "" /\ edPre = EmptyMap
    /\ variant = "replace" /\ api = NoApi /\ render = NoRender
    /\ screen = NoScreen /\ doctor = NoDoctor /\ stdin = NoInput

Called(rec) == rec @@ [calls |-> api.calls + 1]

ApiReadSettings ==
    \E io \in ReadOutcomes :
        LET r == ReadSettings(live, io) IN
        /\ api.calls < MaxCalls
        /\ api' = Called([op |-> "read", io |-> io, err |-> r.err, m |-> r.m,
                          saved |-> api.saved])
        /\ UNCHANGED <<fsVars, runVars, hostWrites, histVars, edVars,
                       variant, render, screen, doctor, stdin>>

ApiWriteSettings ==
    \E d \in StoreDocs, io \in WriteOutcomes :
        LET w == WriteSettings(live, d, io) IN
        /\ api.calls < MaxCalls
        /\ live' = w.file
        /\ api' = Called([op |-> "write", io |-> io, err |-> w.err,
                          saved |-> [ok |-> ~w.err, d |-> d]])
        /\ UNCHANGED <<backups, now, runVars, hostWrites, histVars, edVars,
                       variant, render, screen, doctor, stdin>>

ApiCreateBackup ==
    \E io \in BackupOutcomes :
        LET b == CreateBackup(live, backups, now, io) IN
        /\ api.calls < MaxCalls
        /\ backups' = b.dir
        /\ api' = Called([op |-> "backup", io |-> io, err |-> b.err,
                          path |-> b.path, file |-> live, dir |-> backups,
                          saved |-> api.saved])
        /\ UNCHANGED <<live, now, runVars, hostWrites, histVars, edVars,
                       variant, render, screen, doctor, stdin>>

ApiGetLatestBackup ==
    \E io \in ReadOutcomes :
        LET g == GetLatestBackup(backups, io) IN
        /\ api.calls < MaxCalls
        /\ api' = Called([op |-> "latest", io |-> io, err |-> g.err,
                          path |-> g.path, saved |-> api.saved])
        /\ UNCHANGED <<fsVars, runVars, hostWrites, histVars, edVars,
                       variant, render, screen, doctor, stdin>>

\* the path handed to RestoreFromBackup is the one GetLatestBackup returned
ApiRestoreFromBackup ==
    \E ioRead \in ReadOutcomes, ioWrite \in WriteOutcomes :
        /\ api.calls < MaxCalls
        /\ api.op = "latest" /\ ~api.err
        /\ LET w == RestoreFromBackup(api.path, backups, live, ioRead, ioWrite)
           IN  /\ live' = w.file
               /\ api' = Called([op |-> "restore", err |-> w.err,
                                 path |-> api.path, saved |-> NoSaved])
        /\ UNCHANGED <<backups, now, runVars, hostWrites, histVars, edVars,
                       variant, render, screen, doctor, stdin>>

NextStore ==
    \/ ApiReadSettings \/ ApiWriteSettings \/ ApiCreateBackup
    \/ ApiGetLatestBackup \/ ApiRestoreFromBackup \/ Tick

SpecStore == InitStore /\ [][NextStore]_vars

(***************************************************************************)
(* One run on every kind of standard input: each generation of prompts, a  *)
(* stream that is open, closed from the start, or closes during the run.   *)
(***************************************************************************)
InputDirs ==
    {EmptyMap, [n \in {BackupName(0)} |-> FileEntry(OldBackup, 1)]}

InitInput ==
    /\ live \in InitFiles /\ backups \in InputDirs /\ now = 0
    /\ cmd = "none" /\ pc = "idle" /\ exists = FALSE
    /\ backupPath = NoPath /\ outcome = "" /\ runs = MaxRuns - 1
    /\ hostWrites = 0
    /\ settings = EmptyMap
    /\ live0 = NoFile /\ backups0 = EmptyMap /\ hist = NoHist
    /\ edOp = "none" /\ edArg = "" /\ edPre = EmptyMap
    /\ variant \in Variants /\ api = NoApi /\ render = NoRender
    /\ screen = NoScreen /\ doctor = NoDoctor
    /\ stdin \in [ui : UIs, closed : BOOLEAN]

\* the other end of the stream goes away while the run is going on
CloseInput ==
    /\ pc \notin {"idle", "done"} /\ ~stdin.closed
    /\ stdin' = [stdin EXCEPT !.closed = TRUE]
    /\ UNCHANGED <<fsVars, runVars, hostWrites, histVars, edVars,
                   variant, api, render, screen, doctor>>

\* the steps of a run after its first
RunStep ==
    \/ InstallConfirm \/ InstallBackup \/ InstallWrite
    \/ UninstallMenu \/ UninstallConfirmRemove \/ UninstallConfirmRestore
    \/ UninstallRestore \/ UninstallBackup \/ UninstallWrite

NextInput ==
    \/ InstallStart \/ UninstallStart \/ RunStep \/ CloseInput \/ Exit

SpecInput == InitInput /\ [][NextInput]_vars

\* a run is one sequential process: it takes its next step whenever it has
\* one, and a read returns as soon as the stream has something to deliver
SpecInputFair == SpecInput /\ WF_vars(RunStep)

(***************************************************************************)
(* An install run with another process writing the settings file while it  *)
(* is going on.                                                            *)
(***************************************************************************)
InitRace ==
    /\ live \in InitFiles /\ backups = EmptyMap /\ now = 0
    /\ cmd = "none" /\ pc = "idle" /\ exists = FALSE
    /\ backupPath = NoPath /\ outcome = "" /\ runs = MaxRuns - 1
    /\ hostWrites = 0
    /\ settings = EmptyMap
    /\ live0 = NoFile /\ backups0 = EmptyMap /\ hist = NoHist
    /\ edOp = "none" /\ edArg = "" /\ edPre = EmptyMap
    /\ variant \in Variants /\ api = NoApi /\ render = NoRender
    /\ screen = NoScreen /\ doctor = NoDoctor /\ stdin = NoInput

\* the other process writes a document of its own between two steps of the
\* run; the write is late when the run has already decided what to back up
ConcurrentWrite ==
    \E m \in WithKey(EmptyMap, OtherKey, OtherValues) :
        /\ pc \in {"i_confirm", "i_backup", "i_write"}
        /\ hostWrites < MaxHostWrites
        /\ live' = JsonText("host", JObj(m))
        /\ live' # live
        /\ hostWrites' = hostWrites + 1
        /\ hist' = [hist EXCEPT !.late = @ \/ pc = "i_write" \/ ~exists]
        /\ UNCHANGED <<backups, now, runVars, live0, backups0, edVars, auxVars>>

NextRace ==
    \/ InstallStart \/ InstallConfirm \/ InstallBackup \/ InstallWrite
    \/ ConcurrentWrite \/ Exit

SpecRace == InitRace /\ [][NextRace]_vars

(***************************************************************************)
(* The doctor command.  A string the command slices is a sequence of       *)
(* characters; a check either returns a result or panics.                  *)
(***************************************************************************)
\* a token of n characters
TokenOf(n) == [i \in 1..n |-> i % 10]

\* what statusline.GetAccessToken returns to the doctor: an error, or a token
\* of any length, the empty one included
DoctorTokens ==
    {[err |-> TRUE, token |-> TokenOf(0)]}
        \cup {[err |-> FALSE, token |-> TokenOf(n)] : n \in 0..MaxTokenLen}

\* how the request to the usage endpoint ends
ApiOutcomes == {"reqerr", "timeout", "connfail", "401", "500", "200"}

Panic == [panic |-> TRUE]

Result(name, ok, message) ==
    [panic |-> FALSE, name |-> name, ok |-> ok, message |-> message]

\* Go's s[:hi] and s[lo:], which panic when the index is out of range
SliceTo(s, hi) ==
    IF hi < 0 \/ hi > Len(s) THEN Panic
    ELSE [panic |-> FALSE, s |-> SubSeq(s, 1, hi)]

SliceFrom(s, lo) ==
    IF lo < 0 \/ lo > Len(s) THEN Panic
    ELSE [panic |-> FALSE, s |-> SubSeq(s, lo + 1, Len(s))]

checkConfigExists(file, ioPath, ioStat) ==
    LET name == "Claude Code configuration" IN
    IF ioPath = "fail" THEN Result(name, FALSE, "Cannot determine config path")
    ELSE IF ioStat = "fail" THEN Result(name, FALSE, "Error checking config")
    ELSE IF ~ConfigExists(file) THEN Result(name, FALSE, "Not found")
    ELSE Result(name, TRUE, "settings.json")

checkStatuslineConfigured(file, io) ==
    LET name == "Statusline configuration"
        r    == ReadSettings(file, io)
        c    == GetStatuslineCommand(r.m)
    IN  IF r.err THEN Result(name, FALSE, "Cannot read settings")
        ELSE IF c = "" THEN Result(name, FALSE, "Not configured")
        ELSE IF c # Self THEN Result(name, FALSE, "Different command")
        ELSE Result(name, TRUE, Self)

checkBinaryInPath(found) ==
    IF ~found THEN Result("Binary in PATH", FALSE, "ccstatus not found in PATH")
    ELSE Result("Binary in PATH", TRUE, "path")

checkOAuthToken(t) ==
    LET name == "OAuth token" IN
    IF t.err THEN Result(name, FALSE, "Cannot retrieve")
    ELSE IF Len(t.token) = 0
    THEN Result(name, FALSE, "Empty token - sign in to Claude Code")
    ELSE LET head == SliceTo(t.token, 8) IN
         IF head.panic THEN Panic
         ELSE LET tail == SliceFrom(t.token, Len(t.token) - 4) IN
              IF tail.panic THEN Panic
              ELSE Result(name, TRUE, "masked")

checkAPIEndpoint(t, out) ==
    LET name == "Anthropic API" IN
    IF t.err \/ Len(t.token) = 0 THEN Result(name, FALSE, "Skipped (no token)")
    ELSE CASE out = "reqerr"   -> Result(name, FALSE, "Request error")
           [] out = "timeout"  -> Result(name, FALSE, "Request timed out")
           [] out = "connfail" -> Result(name, FALSE, "Connection failed")
           [] out = "401"      -> Result(name, FALSE, "Token rejected (401)")
           [] out = "500"      -> Result(name, FALSE, "HTTP 500")
           [] out = "200"      -> Result(name, TRUE, "Reachable")

\* the checks run in order while the slice is built; a panic in one of them
\* ends the process before anything is reported
runDoctor(checks) ==
    IF \E i \in DOMAIN checks : checks[i].panic
    THEN [crashed |-> TRUE, reported |-> <<>>, failCount |-> 0]
    ELSE [crashed   |-> FALSE,
          reported  |-> [i \in DOMAIN checks |->
                           [name |-> checks[i].name, ok |-> checks[i].ok]],
          failCount |-> Cardinality({i \in DOMAIN checks : ~checks[i].ok})]

InitDoctor ==
    /\ live \in InitFiles /\ backups = EmptyMap /\ now = 0
    /\ IdleRun
    /\ settings = EmptyMap
    /\ live0 = NoFile /\ backups0 = EmptyMap /\ hist = NoHist
    /\ edOp = "none" /\ edArg = "" /\ edPre = EmptyMap
    /\ variant \in Variants /\ api = NoApi /\ render = NoRender
    /\ screen = NoScreen /\ stdin = NoInput
    /\ doctor \in [op : {"none"}, token : DoctorTokens, found : BOOLEAN,
                   apiOut : ApiOutcomes]

Doctor ==
    \E ioPath \in ReadOutcomes, ioStat \in ReadOutcomes, io \in ReadOutcomes :
        LET checks == << checkConfigExists(live, ioPath, ioStat),
                         checkStatuslineConfigured(live, io),
                         checkBinaryInPath(doctor.found),
                         checkOAuthToken(doctor.token),
                         checkAPIEndpoint(doctor.token, doctor.apiOut) >>
            d == runDoctor(checks)
        IN  /\ doctor.op = "none" /\ "token" \in DOMAIN doctor
            /\ doctor' = [op |-> "doctor", token |-> doctor.token,
                          crashed |-> d.crashed, reported |-> d.reported,
                          failCount |-> d.failCount]
            /\ UNCHANGED <<fsVars, runVars, hostWrites, histVars, edVars,
                           variant, api, render, screen, stdin>>

NextDoctor == Doctor

SpecDoctor == InitDoctor /\ [][NextDoctor]_vars

(***************************************************************************)
(* Display preferences (ccstatus.json) and the renderer.                   *)
(***************************************************************************)
CCStatusConfigFile == "ccstatus.json"

ConfigFields ==
    {"show_session_usage", "show_weekly_usage", "show_reset_times",
     "show_git_branch"}

DefaultCCStatusConfig ==
    [show_session_usage |-> TRUE, show_weekly_usage |-> TRUE,
     show_reset_times |-> TRUE, show_git_branch |-> FALSE]

\* var cfg CCStatusConfig
ZeroCCStatusConfig == [f \in ConfigFields |-> FALSE]

\* json.Unmarshal(data, &cfg) into the zero struct: a field the object does
\* not have, or has as null, is left as it is
UnmarshalConfig(data) ==
    IF data.k # "json" THEN [err |-> TRUE, cfg |-> ZeroCCStatusConfig]
    ELSE CASE data.v.t = "null" -> [err |-> FALSE, cfg |-> ZeroCCStatusConfig]
           [] data.v.t = "obj" ->
                IF \E f \in ConfigFields \cap DOMAIN data.v.o :
                       data.v.o[f].t \notin {"bool", "null"}
                THEN [err |-> TRUE, cfg |-> ZeroCCStatusConfig]
                ELSE [err |-> FALSE,
                      cfg |-> [f \in ConfigFields |->
                                  IF f \in DOMAIN data.v.o
                                       /\ data.v.o[f].t = "bool"
                                  THEN data.v.o[f].b ELSE FALSE]]
           [] OTHER -> [err |-> TRUE, cfg |-> ZeroCCStatusConfig]

LoadCCStatusConfig(file, io) ==
    IF file = NoFile THEN [err |-> FALSE, cfg |-> DefaultCCStatusConfig]
    ELSE IF io = "fail" THEN [err |-> TRUE, cfg |-> DefaultCCStatusConfig]
    ELSE LET u == UnmarshalConfig(file) IN
         IF u.err THEN [err |-> TRUE, cfg |-> DefaultCCStatusConfig]
         ELSE [err |-> FALSE, cfg |-> u.cfg]

\* the preferences file of a settings directory
PrefsFile(dir) ==
    IF CCStatusConfigFile \in DOMAIN dir THEN dir[CCStatusConfigFile].data
    ELSE NoFile

Unreadable == BadText("unreadable")

Unknown == "Unknown"

\* a display name with an escaped line feed in the middle
TwoLineName == "Opus\nPreview"

ModelNames == {"Opus", TwoLineName}

\* the line feeds in a text the renderer prints
LineBreaks(text) == IF text = TwoLineName THEN 1 ELSE 0

StdinInputs ==
    { Unreadable, Garbage,
      JsonText("host", JNull),
      JsonText("host", JArr),
      JsonText("host", JObj(EmptyMap)),
      JsonText("host", JObj([model |-> JStr("Opus")])),
      JsonText("host", JObj([model |-> JObj(EmptyMap)])),
      JsonText("host", JObj([model |-> JObj([display_name |-> JNum("4")])])),
      JsonText("host", JObj([model |-> JObj([display_name |-> JStr("")])])) }
      \cup { JsonText("host",
                      JObj([model |-> JObj([display_name |-> JStr(n)])]))
             : n \in ModelNames }

\* io.ReadAll(os.Stdin), then json.Unmarshal into Input
readModelFromStdin(data) ==
    IF data.k # "json" THEN Unknown
    ELSE IF data.v.t = "null" THEN Unknown
    ELSE IF data.v.t # "obj" THEN Unknown
    ELSE IF "model" \notin DOMAIN data.v.o THEN Unknown
    ELSE LET model == data.v.o["model"] IN
         IF model.t # "obj" THEN Unknown
         ELSE IF "display_name" \notin DOMAIN model.o THEN Unknown
         ELSE IF model.o["display_name"].t # "str" THEN Unknown
         ELSE IF model.o["display_name"].s = "" THEN Unknown
         ELSE model.o["display_name"].s

\* what `security find-generic-password` gives: the command fails, prints
\* nothing, prints something that is not JSON, prints credentials without an
\* access token, prints credentials with one
TokenOutcomes == {"cmdfail", "blank", "garbage", "nofield", "ok"}

GetAccessToken(out) ==
    CASE out = "ok"      -> [err |-> FALSE, token |-> "token"]
      [] out = "nofield" -> [err |-> FALSE, token |-> ""]
      [] OTHER           -> [err |-> TRUE,  token |-> ""]

\* resets_at: missing (""), not a time stamp, or an RFC 3339 time stamp, kept
\* as the local date and time of day it stands for
EmptyTime == [k |-> "empty"]
BadTime   == [k |-> "bad"]
Stamp(month, day, hour, minute) ==
    [k |-> "time", month |-> month, day |-> day, hour |-> hour,
     minute |-> minute]

ResetTimes == {EmptyTime, BadTime, Stamp("Jan", 15, 15, 45)}

NoUsage ==
    [hasError |-> FALSE,
     five_hour |-> [utilization |-> 0, resets_at |-> EmptyTime],
     seven_day |-> [utilization |-> 0, resets_at |-> EmptyTime]]

\* what the usage endpoint gives: no answer, a body that is not JSON, an
\* error body, a body without the usage fields, a usage body
UsageOutcomes == {"neterr", "garbage", "errorbody", "empty", "ok"}

FetchUsage(out, resets) ==
    CASE out = "ok" ->
            [err |-> FALSE,
             usage |-> [hasError |-> FALSE,
                        five_hour |-> [utilization |-> 42, resets_at |-> resets],
                        seven_day |-> [utilization |-> 7, resets_at |-> resets]]]
      [] out = "empty" -> [err |-> FALSE, usage |-> NoUsage]
      [] out = "errorbody" ->
            [err |-> FALSE, usage |-> [NoUsage EXCEPT !.hasError = TRUE]]
      [] OTHER -> [err |-> TRUE, usage |-> NoUsage]

\* time.Parse with both layouts, and Local()
ParseFails(isoTime) == isoTime.k = "bad"

ParseLocal(isoTime) ==
    [month |-> isoTime.month, day |-> isoTime.day, hour |-> isoTime.hour,
     minute |-> isoTime.minute]

Hour12NoMidnight(hour) == IF hour > 12 THEN hour - 12 ELSE hour

Hour12(hour) == IF hour > 12 THEN hour - 12 ELSE IF hour = 0 THEN 12 ELSE hour

AmPm(hour) == IF hour >= 12 THEN "pm" ELSE "am"

\* a printed text is kept as a format and its arguments (fmt.Sprintf), a
\* literal or a variable as a format without arguments
Sprintf(format, args) == [text |-> format, args |-> args]

Text(str) == [text |-> str, args |-> <<>>]

\* what the verb %02d prints for a number below 100: two digits
Fmt02d(n) == <<n \div 10, n % 10>>

formatResetTime(isoTime) ==
    IF isoTime.k = "empty" THEN Text("--")
    ELSE IF ParseFails(isoTime) THEN Text("--")
    ELSE LET local == ParseLocal(isoTime) IN
         Sprintf("%d:%02d%s",
                 <<Hour12(local.hour), Fmt02d(local.minute), AmPm(local.hour)>>)

formatWeeklyResetTime(isoTime) ==
    IF isoTime.k = "empty" THEN Text("--")
    ELSE IF ParseFails(isoTime) THEN Text("--")
    ELSE LET local == ParseLocal(isoTime) IN
         Sprintf("%s %d %d:%02d%s",
                 <<local.month, local.day, Hour12(local.hour),
                   Fmt02d(local.minute), AmPm(local.hour)>>)

Branches == {"", "main"}

BranchPart(cfg, branch) ==
    IF cfg.show_git_branch /\ branch # "" THEN <<Text(branch)>> ELSE <<>>

\* the parts that printFallback joins with " | " and prints
printFallback(model, cfg, branch) ==
    <<Text(model)>> \o BranchPart(cfg, branch)
        \o (IF cfg.show_session_usage THEN <<Text("Session: --%")>> ELSE <<>>)
        \o (IF cfg.show_weekly_usage THEN <<Text("Week: --%")>> ELSE <<>>)

printStatusLineWeekFirst(model, usage, cfg, branch) ==
    <<Text(model)>> \o BranchPart(cfg, branch)
        \o (IF ~cfg.show_weekly_usage THEN <<>>
            ELSE IF cfg.show_reset_times
            THEN <<Sprintf("Week: %d%% (resets %s)",
                           <<usage.seven_day.utilization,
                             formatWeeklyResetTime(usage.seven_day.resets_at)>>)>>
            ELSE <<Sprintf("Week: %d%%", <<usage.seven_day.utilization>>)>>)
        \o (IF ~cfg.show_session_usage THEN <<>>
            ELSE IF cfg.show_reset_times
            THEN <<Sprintf("Session: %d%% (resets %s)",
                           <<usage.five_hour.utilization,
                             formatResetTime(usage.five_hour.resets_at)>>)>>
            ELSE <<Sprintf("Session: %d%%", <<usage.five_hour.utilization>>)>>)

\* the parts that printStatusLine joins with " | " and prints
printStatusLine(model, usage, cfg, branch) ==
    <<Text(model)>> \o BranchPart(cfg, branch)
        \o (IF ~cfg.show_session_usage THEN <<>>
            ELSE IF cfg.show_reset_times
            THEN <<Sprintf("Session: %d%% (resets %s)",
                           <<usage.five_hour.utilization,
                             formatResetTime(usage.five_hour.resets_at)>>)>>
            ELSE <<Sprintf("Session: %d%%", <<usage.five_hour.utilization>>)>>)
        \o (IF ~cfg.show_weekly_usage THEN <<>>
            ELSE IF cfg.show_reset_times
            THEN <<Sprintf("Week: %d%% (resets %s)",
                           <<usage.seven_day.utilization,
                             formatWeeklyResetTime(usage.seven_day.resets_at)>>)>>
            ELSE <<Sprintf("Week: %d%%", <<usage.seven_day.utilization>>)>>)

PrefsObjects ==
    UNION { { [f \in S |-> JBool(b[f])] : b \in [S -> BOOLEAN] }
            : S \in SUBSET ConfigFields }

PrefsFiles ==
    { NoFile, Garbage, JsonText("host", JNull), JsonText("host", JArr),
      JsonText("host", JObj([show_git_branch |-> JStr("yes")])) }
        \cup { JsonText("indent", JObj(o)) : o \in PrefsObjects }

\* what an invocation of the renderer finds: its standard input, the key
\* chain, the usage endpoint, the git work tree
RenderInputs ==
    [op : {"none"}, stdin : StdinInputs, tokenOut : TokenOutcomes,
     usageOut : UsageOutcomes, resets : ResetTimes, branch : Branches]

InitRender ==
    /\ live = NoFile /\ now = 0
    /\ backups \in { IF p = NoFile THEN EmptyMap
                     ELSE MapSet(EmptyMap, CCStatusConfigFile, FileEntry(p, 1))
                     : p \in PrefsFiles }
    /\ IdleRun
    /\ settings = EmptyMap
    /\ live0 = NoFile /\ backups0 = EmptyMap /\ hist = NoHist
    /\ edOp = "none" /\ edArg = "" /\ edPre = EmptyMap
    /\ variant = "replace" /\ api = NoApi /\ render \in RenderInputs
    /\ screen = NoScreen /\ doctor = NoDoctor /\ stdin = NoInput

\* one invocation of the renderer
Run ==
    \E io \in ReadOutcomes :
        LET c     == LoadCCStatusConfig(PrefsFile(backups), io)
            model == readModelFromStdin(render.stdin)
            t     == GetAccessToken(render.tokenOut)
            u     == FetchUsage(render.usageOut, render.resets)
            fallback == t.err \/ t.token = "" \/ u.err \/ u.usage.hasError
        IN  /\ "stdin" \in DOMAIN render
            /\ render' =
                 [op |-> "run", stdin |-> render.stdin,
                  tokenOut |-> render.tokenOut, usageOut |-> render.usageOut,
                  resets |-> render.resets, branch |-> render.branch,
                  io |-> io, cfg |-> c.cfg, fallback |-> fallback,
                  printed |->
                      IF fallback
                      THEN <<printFallback(model, c.cfg, render.branch)>>
                      ELSE <<printStatusLine(model, u.usage, c.cfg,
                                             render.branch)>>]
            /\ UNCHANGED <<fsVars, runVars, hostWrites, histVars, edVars,
                           variant, api, screen, doctor, stdin>>

NextRender == Run

SpecRender == InitRender /\ [][NextRender]_vars

(***************************************************************************)
(* The config screen (ccstatus config).                                    *)
(***************************************************************************)
\* the options of the screen, in the order of initialModel
OptionFields ==
    <<"show_session_usage", "show_weekly_usage", "show_reset_times",
      "show_git_branch">>

Keys == {"ctrl+c", "q", "up", "k", "down", "j", "enter", " ", "s", "esc", "x"}

initialModel(cfg) ==
    [options |-> cfg, cursor |-> 0, originalCfg |-> cfg,
     saved |-> FALSE, cancelled |-> FALSE, hasChanges |-> FALSE]

Quit(m)   == [m |-> m, quit |-> TRUE]
NoCmd(m)  == [m |-> m, quit |-> FALSE]

UpdateDownUnbounded(m, key) ==
    CASE key \in {"ctrl+c", "q", "esc"} -> Quit([m EXCEPT !.cancelled = TRUE])
      [] key \in {"up", "k"} ->
            NoCmd([m EXCEPT !.cursor = IF @ > 0 THEN @ - 1 ELSE @])
      [] key \in {"down", "j"} -> NoCmd([m EXCEPT !.cursor = @ + 1])
      [] key \in {"enter", " "} ->
            IF m.cursor < Len(OptionFields)
            THEN LET f == OptionFields[m.cursor + 1]
                     o == [m.options EXCEPT ![f] = ~@]
                 IN  NoCmd([m EXCEPT !.options = o,
                                     !.hasChanges = o # m.originalCfg])
            ELSE IF m.cursor = Len(OptionFields)
            THEN Quit([m EXCEPT !.saved = TRUE])
            ELSE Quit([m EXCEPT !.cancelled = TRUE])
      [] key = "s" -> Quit([m EXCEPT !.saved = TRUE])
      [] OTHER -> NoCmd(m)

\* configModel.Update on a key message: the new model, and whether tea.Quit
\* is the command returned
Update(m, key) ==
    CASE key \in {"ctrl+c", "q"} -> Quit([m EXCEPT !.cancelled = TRUE])
      [] key \in {"up", "k"} ->
            NoCmd([m EXCEPT !.cursor = IF @ > 0 THEN @ - 1 ELSE @])
      [] key \in {"down", "j"} ->
            LET maxCursor == Len(OptionFields) + 1 IN
            NoCmd([m EXCEPT !.cursor = IF @ < maxCursor THEN @ + 1 ELSE @])
      [] key \in {"enter", " "} ->
            IF m.cursor < Len(OptionFields)
            THEN LET f == OptionFields[m.cursor + 1]
                     o == [m.options EXCEPT ![f] = ~@]
                 IN  NoCmd([m EXCEPT !.options = o,
                                     !.hasChanges = o # m.originalCfg])
            ELSE IF m.cursor = Len(OptionFields)
            THEN Quit([m EXCEPT !.saved = TRUE])
            ELSE Quit([m EXCEPT !.cancelled = TRUE])
      [] key = "s" -> Quit([m EXCEPT !.saved = TRUE])
      [] key = "esc" -> Quit([m EXCEPT !.cancelled = TRUE])
      [] OTHER -> NoCmd(m)

\* json.MarshalIndent of a CCStatusConfig
MarshalConfig(cfg) ==
    JsonText("indent", JObj([f \in ConfigFields |-> JBool(cfg[f])]))

SaveCCStatusConfig(dir, cfg, clock, io) ==
    LET old == PrefsFile(dir)
        w   == WriteFile(old, MarshalConfig(cfg), io)
    IN  [err |-> w.err,
         dir |-> IF w.file = NoFile THEN dir
                 ELSE MapSet(dir, CCStatusConfigFile,
                             FileEntry(w.file, clock + 1))]

\* how a key ends the session, if it does
EndsBy(m, key) ==
    IF ~Update(m, key).quit THEN "none"
    ELSE IF key = "s" \/ (key \in {"enter", " "} /\ m.cursor = Len(OptionFields))
    THEN "save"
    ELSE "cancel"

ScreenPrefs ==
    { NoFile, Garbage, JsonText("indent", JObj(EmptyMap)) }
        \cup { JsonText("indent", JObj(o))
               : o \in {p \in PrefsObjects : DOMAIN p = ConfigFields} }

InitScreen ==
    /\ live = NoFile /\ now = 0
    /\ backups \in { IF p = NoFile THEN EmptyMap
                     ELSE MapSet(EmptyMap, CCStatusConfigFile, FileEntry(p, 1))
                     : p \in ScreenPrefs }
    /\ IdleRun
    /\ settings = EmptyMap
    /\ live0 = NoFile /\ backups0 = EmptyMap /\ hist = NoHist
    /\ edOp = "none" /\ edArg = "" /\ edPre = EmptyMap
    /\ variant = "replace" /\ api = NoApi /\ render = NoRender
    /\ screen = NoScreen /\ doctor = NoDoctor /\ stdin = NoInput

\* runConfig up to p.Run(): the preferences are loaded into the model
ConfigStart ==
    \E io \in ReadOutcomes :
        LET c == LoadCCStatusConfig(PrefsFile(backups), io) IN
        /\ screen.phase = "none"
        /\ screen' = [phase |-> "running", m |-> initialModel(c.cfg),
                      loaded |-> c.cfg, flips |-> ZeroCCStatusConfig,
                      endedBy |-> "none", keys |-> 0, last |-> "",
                      wrote |-> FALSE, io |-> "",
                      dir0 |-> backups]
        /\ UNCHANGED <<fsVars, runVars, hostWrites, histVars, edVars,
                       variant, api, render, doctor, stdin>>

\* bubbletea hands a key message to Update.  tea.Quit is a command: the
\* QuitMsg it produces is sent from another goroutine, so a key already read
\* from the terminal can reach Update before the QuitMsg ends the loop.
KeyEvent ==
    \E key \in Keys :
        LET u == Update(screen.m, key)
            toggles == key \in {"enter", " "}
                          /\ screen.m.cursor < Len(OptionFields)
        IN  /\ screen.phase \in {"running", "quitting"}
            /\ screen.keys < MaxKeys
            /\ screen' =
                 [screen EXCEPT
                    !.phase = IF u.quit THEN "quitting" ELSE @,
                    !.m = u.m,
                    !.flips = IF toggles
                              THEN [@ EXCEPT
                                      ![OptionFields[screen.m.cursor + 1]] = ~@]
                              ELSE @,
                    !.endedBy = IF @ = "none" THEN EndsBy(screen.m, key) ELSE @,
                    !.keys = @ + 1,
                    !.last = key]
            /\ UNCHANGED <<fsVars, runVars, hostWrites, histVars, edVars,
                           variant, api, render, doctor, stdin>>

\* the QuitMsg ends p.Run(); runConfig saves when m.saved
ConfigQuit ==
    \E io \in WriteOutcomes :
        /\ screen.phase = "quitting"
        /\ IF screen.m.saved
           THEN LET w == SaveCCStatusConfig(backups, screen.m.options, now, io)
                IN  /\ backups' = w.dir
                    /\ screen' = [screen EXCEPT !.phase = "ended",
                                                !.wrote = io # "denied",
                                                !.io = io]
           ELSE /\ backups' = backups
                /\ screen' = [screen EXCEPT !.phase = "ended", !.io = "ok"]
        /\ UNCHANGED <<live, now, runVars, hostWrites, histVars, edVars,
                       variant, api, render, doctor, stdin>>

\* p.Run() returns an error: runConfig reports it and returns
ConfigRunError ==
    /\ screen.phase = "running"
    /\ screen' = [screen EXCEPT !.phase = "failed"]
    /\ UNCHANGED <<fsVars, runVars, hostWrites, histVars, edVars,
                   variant, api, render, doctor, stdin>>

NextScreen == ConfigStart \/ KeyEvent \/ ConfigQuit \/ ConfigRunError

SpecScreen == InitScreen /\ [][NextScreen]_vars

(***************************************************************************)
(* Format harness: the two reset-time formatters applied to every time of  *)
(* day.                                                                    *)
(***************************************************************************)
Hours   == 0..23
Minutes == 0..59

FormatInputs ==
    {EmptyTime, BadTime}
        \cup {Stamp("Jan", 15, h, m) : h \in Hours, m \in Minutes}

InitFormat ==
    /\ live = NoFile /\ backups = EmptyMap /\ now = 0
    /\ IdleRun
    /\ settings = EmptyMap
    /\ live0 = NoFile /\ backups0 = EmptyMap /\ hist = NoHist
    /\ edOp = "none" /\ edArg = "" /\ edPre = EmptyMap
    /\ variant = "replace" /\ api = NoApi
    /\ render \in [op : {"none"}, isoTime : FormatInputs]
    /\ screen = NoScreen /\ doctor = NoDoctor /\ stdin = NoInput

FormatReset ==
    /\ "isoTime" \in DOMAIN render
    /\ render' = [op |-> "formatResetTime", isoTime |-> render.isoTime,
                  out |-> formatResetTime(render.isoTime), clockAt |-> 1]
    /\ UNCHANGED <<fsVars, runVars, hostWrites, histVars, edVars, variant, api, screen, doctor, stdin>>

FormatWeeklyReset ==
    /\ "isoTime" \in DOMAIN render
    /\ render' = [op |-> "formatWeeklyResetTime", isoTime |-> render.isoTime,
                  out |-> formatWeeklyResetTime(render.isoTime), clockAt |-> 3]
    /\ UNCHANGED <<fsVars, runVars, hostWrites, histVars, edVars, variant, api, screen, doctor, stdin>>

NextFormat == FormatReset \/ FormatWeeklyReset

SpecFormat == InitFormat /\ [][NextFormat]_vars

(***************************************************************************)
(* Properties of the runs.                                                 *)
(***************************************************************************)
\* the top-level mapping a settings file holds, as written in the file
TopLevel(file) ==
    IF file.k = "json" /\ file.v.t = "obj" THEN file.v.o ELSE EmptyMap

OtherKeys(m) == (DOMAIN m) \ {StatuslineKey}

Completed(c) == pc = "done" /\ cmd = c /\ outcome = "complete"

\* C3: after a confirmed install run on an existing settings document the
\* saved file has every other top-level key unchanged, every sibling field
\* under the statusline key unchanged, and the command equal to "ccstatus".
C3_InstallKeepsKeysAndSiblings ==
    (Completed("install") /\ live0.k = "json" /\ live0.v.t = "obj") =>
        LET before == TopLevel(live0)
            after  == TopLevel(live)
        IN  /\ \A k \in OtherKeys(before) :
                   k \in DOMAIN after /\ after[k] = before[k]
            /\ (StatuslineKey \in DOMAIN before
                    /\ before[StatuslineKey].t = "obj") =>
                 \A f \in (DOMAIN before[StatuslineKey].o) \ {CommandField} :
                     /\ StatuslineKey \in DOMAIN after
                     /\ after[StatuslineKey].t = "obj"
                     /\ f \in DOMAIN after[StatuslineKey].o
                     /\ after[StatuslineKey].o[f] = before[StatuslineKey].o[f]
            /\ GetStatuslineCommand(after) = Self

C5_WriteOnlyAfterBackup ==
    (exists /\ hist.wroteLive) => hist.backedUp

\* C6: once the user has declined a confirmation or chosen Cancel, the
\* settings file and the backup files are what they were when the run began.
C6_DeclineChangesNothing ==
    hist.declined => (live = live0 /\ backups = backups0 /\ ~hist.changedDir)

C6_Witness ==
    /\ pc = "done" /\ hist.declined
    /\ live0 # NoFile /\ backups0 # EmptyMap

\* C7: every change to the settings directory is preceded in its run by a
\* yes/no confirmation that the user answered yes.
C7_ChangeOnlyAfterYes ==
    hist.changedDir => hist.saidYes

\* C8: when the loaded settings already have the command "ccstatus", an
\* install run stops with success, without a prompt, a backup or a write.
C8_InstallAlreadyConfiguredIsNoOp ==
    (cmd = "install" /\ outcome # "error"
        /\ ~Unmarshal(live0).err
        /\ GetStatuslineCommand(Unmarshal(live0).m) = Self) =>
            /\ pc = "done" /\ outcome = "already"
            /\ ~hist.prompted /\ ~hist.changedDir
            /\ live = live0 /\ backups = backups0

C8_Witness ==
    /\ pc = "done" /\ cmd = "install" /\ outcome = "already"
    /\ DOMAIN TopLevel(live0) # {StatuslineKey}

\* C9: a save either leaves the complete serialization of the document in
\* the settings file (success) or leaves the file as it was (failure).
C9_SaveIsAtomic ==
    (pc = "done" /\ hist.path \in {"set", "remove"}) =>
        IF outcome = "complete" THEN live = MarshalIndent(settings)
        ELSE live = live0

\* C10: restore fails and leaves the settings file as it was when the backup
\* does not hold a JSON object (malformed text, or a value such as null);
\* when it holds an object, a successful restore leaves exactly its bytes.
C10_RestoreOnlyObjects ==
    (pc = "done" /\ hist.path = "restore" /\ backupPath \in DOMAIN backups) =>
        LET data == backups[backupPath].data IN
        IF data.k = "json" /\ data.v.t = "obj"
        THEN outcome = "complete" => live = data
        ELSE outcome = "error" /\ live = live0

\* C18: a confirmed install that found no settings file ends with a settings
\* file whose only top-level entry is the statusline entry, whose only field
\* is command = "ccstatus", and creates no backup.
C18_InstallOnEmptyHome ==
    (Completed("install") /\ live0 = NoFile) =>
        /\ live.k = "json"
        /\ TopLevel(live) = MapSet(EmptyMap, StatuslineKey, OnlyCommand(Self))
        /\ backups = backups0
        /\ ~hist.backedUp

C18_Witness ==
    /\ Completed("install") /\ live0 = NoFile /\ backups0 = EmptyMap
    /\ hist.saidYes /\ ~exists

(***************************************************************************)
(* Properties of the settings store and the backup manager.                *)
(***************************************************************************)
\* the settings file could be read
Loaded == api.op = "read" /\ live # NoFile /\ api.io = "ok"

\* C11 as stated: load() on an existing file fails exactly when the content
\* is not valid JSON or its top-level value is not an object (an array, a
\* string, a number, a boolean or null).
C11_LoadFailsUnlessObject ==
    Loaded => (api.err <=> ~(live.k = "json" /\ live.v.t = "obj"))

\* C11 amended: load() on an existing file fails exactly when the content is
\* not valid JSON or its top-level value is an array, a string, a number or
\* a boolean; a top-level object yields a mapping with the object's keys and
\* a top-level null yields the empty mapping, without error.
C11_LoadFailsUnlessObjectOrNull ==
    Loaded =>
        /\ api.err <=> ~(live.k = "json" /\ live.v.t \in {"obj", "null"})
        /\ (live.k = "json" /\ live.v.t = "obj")
               => DOMAIN api.m = DOMAIN live.v.o
        /\ (live.k = "json" /\ live.v.t = "null") => api.m = EmptyMap

\* load() of a file whose content is null
C11_Witness ==
    Loaded /\ ~api.err /\ live.k = "json" /\ live.v.t = "null"

\* C12: createBackup() without a live settings file returns the empty path,
\* no error, and creates nothing; with one, and when reading and writing
\* succeed, it returns the path of a file settings.backup.<timestamp>.json of
\* the settings directory that holds the bytes of the live file, which it
\* leaves unchanged.
C12_CreateBackupCopiesLive ==
    api.op = "backup" =>
        /\ live = api.file
        /\ api.file = NoFile =>
               (api.path = NoPath /\ ~api.err /\ backups = api.dir)
        /\ (api.file # NoFile /\ api.io = "ok") =>
               /\ ~api.err
               /\ \E c \in 0..MaxTime : api.path = BackupName(c)
               /\ api.path \in DOMAIN backups
               /\ ~backups[api.path].isDir
               /\ backups[api.path].data = live
               /\ \A n \in DOMAIN api.dir \ {api.path} :
                      n \in DOMAIN backups /\ backups[n] = api.dir[n]

\* a backup of an existing file under a name the directory did not have
C12_Witness ==
    /\ api.op = "backup" /\ api.file # NoFile /\ api.io = "ok"
    /\ api.path \notin DOMAIN api.dir

\* the files latestBackup() is said to choose from
PrefixedFiles(dir) ==
    {n \in DOMAIN dir : ~dir[n].isDir /\ StartsWithPrefix(n)}

\* C14: latestBackup() returns a non-directory file whose name starts with
\* the backup prefix and whose modification time is at least that of every
\* other such file, whatever the order of the names; it fails exactly when
\* there is no such file or the directory cannot be read.
C14_LatestBackupIsNewestPrefixed ==
    api.op = "latest" =>
        /\ api.err <=> (PrefixedFiles(backups) = {} \/ api.io = "fail")
        /\ ~api.err =>
               /\ api.path \in PrefixedFiles(backups)
               /\ \A n \in PrefixedFiles(backups) :
                      backups[api.path].mtime >= backups[n].mtime

\* C15: for any JSON object D without the statusline key, loading what
\* save(D) wrote yields a value equal to D, numbers included.
C15_RoundTrip ==
    (api.op = "read" /\ api.io = "ok" /\ api.saved.ok
         /\ StatuslineKey \notin DOMAIN api.saved.d) =>
        (~api.err /\ api.m = api.saved.d)

\* C13: a backup file, once created, keeps its bytes and is never removed by
\* any step of any sequence of install and uninstall runs, two backups in
\* one clock second included; and after a run whose save failed the backup
\* taken in that run holds the bytes the settings file had before the run.
C13_BackupsImmutable ==
    /\ [][\A n \in DOMAIN backups :
              backups[n].data # Partial =>
                  (n \in DOMAIN backups' /\ backups'[n].data = backups[n].data)
         ]_vars
    /\ []((pc = "done" /\ outcome = "error" /\ hist.backedUp
               /\ hist.path \in {"set", "remove"})
            => (/\ BackupName(now) \in DOMAIN backups
                /\ backups[BackupName(now)].data = live0))

(***************************************************************************)
(* Properties of the renderer.                                             *)
(***************************************************************************)
\* the preferences file gives a value for the field
Supplies(file, f) ==
    /\ file.k = "json" /\ file.v.t = "obj"
    /\ f \in DOMAIN file.v.o /\ file.v.o[f].t = "bool"

\* the preferences file is missing, unreadable, unparsable, or a valid object
\* without the field
Absent(file, io, f) ==
    \/ file = NoFile \/ io = "fail" \/ file.k # "json"
    \/ (file.v.t = "obj" /\ f \notin DOMAIN file.v.o)

\* C19: the renderer gets, for each of the four toggles, the value the
\* preferences file gives when it supplies the field (and the file parses),
\* and the toggle's default when the field is absent: file missing, file
\* unparsable, or a valid object that omits the field.
C19_TogglesFromFileOrDefault ==
    render.op = "run" =>
        LET file == PrefsFile(backups) IN
        \A f \in ConfigFields :
            /\ (render.io = "ok" /\ Supplies(file, f)
                    /\ \A g \in ConfigFields : Supplies(file, g) \/ Absent(file, "ok", g))
                   => render.cfg[f] = file.v.o[f].b
            /\ Absent(file, render.io, f)
                   => render.cfg[f] = DefaultCCStatusConfig[f]

\* the model name of the input, when it has one
HasModelName(data) ==
    /\ data.k = "json" /\ data.v.t = "obj"
    /\ "model" \in DOMAIN data.v.o /\ data.v.o["model"].t = "obj"
    /\ "display_name" \in DOMAIN data.v.o["model"].o
    /\ data.v.o["model"].o["display_name"].t = "str"
    /\ data.v.o["model"].o["display_name"].s # ""

RECURSIVE SumLineBreaks(_)
SumLineBreaks(parts) ==
    IF parts = <<>> THEN 0
    ELSE LineBreaks(Head(parts).text) + SumLineBreaks(Tail(parts))

RECURSIVE PrintedLineBreaks(_)
PrintedLineBreaks(printed) ==
    IF printed = <<>> THEN 0
    ELSE SumLineBreaks(Head(printed)) + PrintedLineBreaks(Tail(printed))

\* the lines of the output: the line feeds printed, plus one
OutputLines(printed) ==
    IF printed = <<>> THEN 0 ELSE 1 + PrintedLineBreaks(printed)

UsageUnavailable ==
    \/ render.tokenOut \in {"cmdfail", "blank", "garbage", "nofield"}
    \/ render.usageOut \in {"neterr", "garbage", "errorbody"}

\* C20: whatever its collaborators do, the renderer prints once, one line,
\* whose first segment is the model name, or "Unknown" when the input has
\* none, and whose usage segments are the placeholders when the usage data
\* could not be had.
C20_OneLineAlways ==
    render.op = "run" =>
        /\ Len(render.printed) = 1
        /\ OutputLines(render.printed) = 1
        /\ Len(render.printed[1]) >= 1
        /\ render.printed[1][1].text =
               (IF HasModelName(render.stdin)
                THEN render.stdin.v.o["model"].o["display_name"].s
                ELSE Unknown)
        /\ UsageUnavailable =>
               \A i \in 2..Len(render.printed[1]) :
                   render.printed[1][i].text
                       \in {"Session: --%", "Week: --%", "main"}

SessionTexts == {"Session: --%", "Session: %d%%", "Session: %d%% (resets %s)"}

WeekTexts == {"Week: --%", "Week: %d%%", "Week: %d%% (resets %s)"}

ResetTexts == {"Session: %d%% (resets %s)", "Week: %d%% (resets %s)"}

\* which segment a part of the printed line is
SegmentKind(parts, i) ==
    IF i = 1 THEN "model"
    ELSE IF parts[i].text \in SessionTexts THEN "session"
    ELSE IF parts[i].text \in WeekTexts THEN "week"
    ELSE "branch"

SegmentKinds(parts) == [i \in 1..Len(parts) |-> SegmentKind(parts, i)]

\* model, branch, session, week, each of the last three present or not
SegmentOrder(cfg, kinds) ==
    \E b \in {<<>>, <<"branch">>} :
        /\ b # <<>> => cfg.show_git_branch
        /\ kinds = <<"model">> \o b
                     \o (IF cfg.show_session_usage THEN <<"session">> ELSE <<>>)
                     \o (IF cfg.show_weekly_usage THEN <<"week">> ELSE <<>>)

\* C21 as stated: the segments are model, branch, session, week in that
\* order; session and week are there exactly when their toggle is on, the
\* branch only when its toggle is on; a usage segment carries reset-time text
\* exactly when the reset-time toggle is on; in the normal and in the
\* fallback output alike.
C21_SegmentsFollowToggles ==
    render.op = "run" =>
        LET parts == render.printed[1] IN
        /\ SegmentOrder(render.cfg, SegmentKinds(parts))
        /\ \A i \in 2..Len(parts) :
               SegmentKind(parts, i) \in {"session", "week"} =>
                   (parts[i].text \in ResetTexts <=> render.cfg.show_reset_times)

\* C21 amended: the order and the presence of the segments are as stated in
\* the normal and in the fallback output; reset-time text is in a usage
\* segment of the normal output exactly when the reset-time toggle is on,
\* and never in the fallback output, whose usage segments are the fixed
\* placeholders.
C21_SegmentsFollowTogglesResetOnlyNormal ==
    render.op = "run" =>
        LET parts == render.printed[1] IN
        /\ SegmentOrder(render.cfg, SegmentKinds(parts))
        /\ \A i \in 2..Len(parts) :
               SegmentKind(parts, i) \in {"session", "week"} =>
                   IF render.fallback
                   THEN parts[i].text \in {"Session: --%", "Week: --%"}
                   ELSE (parts[i].text \in ResetTexts
                             <=> render.cfg.show_reset_times)

\* a fallback line with all four segments while the reset-time toggle is on
C21_Witness ==
    /\ render.op = "run" /\ render.fallback
    /\ render.cfg.show_reset_times
    /\ SegmentKinds(render.printed[1]) = <<"model", "branch", "session", "week">>

\* C24: for every local hour h and minute m the time of day is printed as
\* H:mm followed by am or pm, with H in 1..12 (12 for h = 0 and h = 12,
\* h - 12 for h > 12), mm of two digits, am exactly when h < 12; an empty or
\* unparsable time stamp is printed as "--".
C24_TwelveHourClock ==
    render.op \in {"formatResetTime", "formatWeeklyResetTime"} =>
        IF render.isoTime.k = "time"
        THEN LET h == render.isoTime.hour
                 m == render.isoTime.minute
                 a == render.out.args
                 i == render.clockAt
             IN  /\ render.out.text =
                        (IF i = 1 THEN "%d:%02d%s" ELSE "%s %d %d:%02d%s")
                 /\ Len(a) = i + 2
                 /\ a[i] \in 1..12
                 /\ a[i] = (IF h = 0 \/ h = 12 THEN 12
                            ELSE IF h > 12 THEN h - 12 ELSE h)
                 /\ a[i + 1] = <<m \div 10, m % 10>>
                 /\ a[i + 2] = (IF h < 12 THEN "am" ELSE "pm")
        ELSE render.out.text = "--" /\ Len(render.out.args) = 0

\* five past midnight, printed by formatResetTime
C24_Witness ==
    /\ render.op = "formatResetTime" /\ render.isoTime.k = "time"
    /\ render.isoTime.hour = 0 /\ render.isoTime.minute = 5
    /\ render.out.args[1] = 12

(***************************************************************************)
(* Properties of the config screen.                                        *)
(***************************************************************************)
InSession == screen.phase \in {"running", "quitting", "ended"}

\* the loaded value of each option, flipped once per Enter or Space on it
Flipped == [f \in ConfigFields |-> screen.loaded[f] # screen.flips[f]]

\* C22: for any sequence of key events the preferences file is written
\* exactly when the session ends by Save, and then holds each option's loaded
\* value flipped once per Enter or Space pressed on it; a session that ends
\* by Cancel writes nothing; saved and cancelled are never both set.
C22_WrittenExactlyOnSave ==
    InSession =>
        /\ ~(screen.m.saved /\ screen.m.cancelled)
        /\ (screen.phase = "ended" /\ screen.io = "ok") =>
               /\ screen.wrote <=> screen.endedBy = "save"
               /\ screen.wrote => PrefsFile(backups) = MarshalConfig(Flipped)
               /\ screen.endedBy = "cancel" => backups = screen.dir0

\* C30: the cursor stays within 0 .. number of options + 1, so Enter acts on
\* an option, on Save or on Cancel; up at the first item and down at the
\* last item leave it where it is.
C30_CursorInRange ==
    /\ [](InSession => screen.m.cursor \in 0..(Len(OptionFields) + 1))
    /\ [][(InSession /\ screen'.keys = screen.keys + 1) =>
             /\ (screen.m.cursor = 0 /\ screen'.last \in {"up", "k"})
                    => screen'.m.cursor = 0
             /\ (screen.m.cursor = Len(OptionFields) + 1
                     /\ screen'.last \in {"down", "j"})
                    => screen'.m.cursor = Len(OptionFields) + 1
         ]_vars

\* down pressed on the last item (Cancel)
C30_Witness ==
    /\ screen.phase = "running" /\ screen.last = "down"
    /\ screen.keys = Len(OptionFields) + 2
    /\ screen.m.cursor = Len(OptionFields) + 1

(***************************************************************************)
(* More properties of the runs.                                            *)
(***************************************************************************)
\* the statusline command a settings file holds ("" when it holds none or
\* cannot be parsed)
CommandIn(file) ==
    IF Unmarshal(file).err THEN ""
    ELSE GetStatuslineCommand(Unmarshal(file).m)

\* C23: an uninstall run that finds no settings file, or a statusline command
\* that is empty, absent or not "ccstatus", prompts for nothing, creates no
\* backup and leaves the settings file alone; a run reaches the uninstall
\* options only when the command is "ccstatus".
C23_UninstallNothingToDo ==
    /\ (cmd = "uninstall" /\ pc # "idle"
            /\ (live0 = NoFile \/ CommandIn(live0) # Self)) =>
           /\ pc = "done"
           /\ live = live0 /\ backups = backups0
           /\ ~hist.prompted /\ ~hist.backedUp /\ ~hist.wroteLive
           /\ ~hist.changedDir
    /\ (cmd = "uninstall"
            /\ pc \in {"u_menu", "u_confirm", "u_restore_confirm", "u_restore",
                       "u_backup", "u_write"}) =>
           GetStatuslineCommand(settings) = Self

\* an uninstall run on a settings file configured to another command
C23_Witness ==
    /\ cmd = "uninstall" /\ pc = "done" /\ outcome = "nothing"
    /\ CommandIn(live0) = "other"

\* C25: when nothing but install and uninstall runs writes to the settings
\* directory, which starts with any settings file and no backup, a finished
\* uninstall run that reports completion (by restoring or by removing)
\* leaves a settings file whose statusline command is not "ccstatus".
C25_CompletedUninstallUnconfigures ==
    (Completed("uninstall") /\ hostWrites = 0) => CommandIn(live) # Self

\* C27: every run of install and uninstall terminates whatever the input
\* stream does, a closed stream and a stream of read errors included.
C27_RunsTerminate == (pc \notin {"idle", "done"}) ~> (pc = "done")

\* C28: a run in which every prompt ended in a read error creates no backup
\* and does not write the settings file, although the options menu takes a
\* failed read for its first option.
C28_FailedPromptIsNoConsent ==
    (hist.prompted /\ ~hist.answered) =>
        /\ live = live0 /\ backups = backups0
        /\ ~hist.backedUp /\ ~hist.wroteLive /\ ~hist.changedDir
        /\ pc \notin {"i_backup", "i_write", "u_backup", "u_write", "u_restore"}

\* an uninstall run whose menu and whose restore prompt both failed
C28_Witness ==
    /\ cmd = "uninstall" /\ pc = "done" /\ outcome = "cancelled"
    /\ backupPath # NoPath
    /\ hist.prompted /\ ~hist.answered

\* every version of the settings file the run's save overwrote has a
\* byte-identical copy among the backup files
OverwrittenAreBackedUp ==
    \A i \in DOMAIN hist.over :
        \E n \in DOMAIN backups :
            ~backups[n].isDir /\ backups[n].data = hist.over[i]

\* C26: however an install run interleaves with another process that writes
\* the settings file, every version of the file that the run's save
\* overwrites is byte-identical to a backup file present after the run.
C26_OverwrittenVersionsBackedUp ==
    (cmd = "install" /\ pc = "done") => OverwrittenAreBackedUp

\* C26, amended: this holds when no write of the other process falls between
\* the run's backup step (or its finding of no settings file) and its save.
C26_OverwrittenVersionsBackedUpUnlessLate ==
    (cmd = "install" /\ pc = "done" /\ ~hist.late) => OverwrittenAreBackedUp

\* an install run that saved over a version the other process wrote before
\* the backup step
C26_Witness ==
    /\ cmd = "install" /\ pc = "done" /\ outcome = "complete"
    /\ hostWrites > 0 /\ ~hist.late
    /\ hist.over # <<>> /\ hist.over[1] # live0

\* C29: the doctor command runs its five checks and reports a result for
\* each of them without crashing, whatever each check finds and whatever the
\* length of a non-empty token (tokens shorter than 8 characters included).
C29_DoctorReportsFiveChecks ==
    doctor.op = "doctor" =>
        /\ ~doctor.crashed
        /\ Len(doctor.reported) = 5

====
